---- MODULE Spec2Model ----
(***************************************************************************)
(* 2SF2ROM: the recursive psflib loader load_2sf (src/src/2sf2rom.cpp) and *)
(* the PSF container PSFFile: its reader, set_tags and its writer          *)
(* (src/unnamed/part_000).                                                 *)
(*                                                                         *)
(* 2sf2rom.cpp holds two generations of the loader.  build = 1 is the      *)
(* loader of lines 52-138 (whole-block decompression, std::copy, no        *)
(* directory handling); build = 2 is the loader of lines 302-411 (getcwd / *)
(* chdir around every psflib, streaming ZlibReader).  Both are modelled;   *)
(* every behaviour starts by fixing one of them.                           *)
(*                                                                         *)
(* TLC integers are 32-bit signed, so a uint32_t is modelled as the pair   *)
(* <<hi, lo>> of its 16-bit halves and its arithmetic is done on the       *)
(* halves, wrapping at 2^32 exactly where the C++ does.                    *)
(***************************************************************************)
EXTENDS Integers, Sequences, FiniteSets, TLC

VARIABLES
  build,    \* 1 or 2: which load_2sf / main is compiled
  fs,       \* the file system: absolute path -> file content (fixed)
  arg,      \* the 2sf-file argument of main (a relative path)
  cwd,      \* the process's current working directory
  stack,    \* the activation records of load_2sf, root first
  rom,      \* std::vector<char> rom of main
  exc,      \* the exception in flight, or NoExc
  mainpc,   \* main's position
  status,   \* main's return value (exit status), -1 while running
  outfile,  \* the output file: NotWritten, or the rom written to it
  log,      \* history: what the loader did, in order
  calls,    \* history: number of load_2sf invocations so far
  input,    \* PSFFile(filename): the file being parsed
  parsed,   \* PSFFile(filename): the outcome of the constructor, then the object
  output,   \* PSFFile::write(filename): NotWritten, or the file written
  reparsed  \* the outcome of the constructor on the file written

loaderVars == <<build, fs, arg, cwd, stack, rom, exc, mainpc, status, outfile, log, calls>>
parserVars == <<input, parsed, output, reparsed>>
vars == <<build, fs, arg, cwd, stack, rom, exc, mainpc, status, outfile, log, calls, input, parsed,
          output, reparsed>>

-----------------------------------------------------------------------------
(* Bounds of the model.                                                    *)

\* psflib tags _lib, _lib2, ..., up to this index are put into files
MaxLibIdx == 3
\* longest program body (bytes after the 8-byte exe header) put into a file
MaxBody == 2

-----------------------------------------------------------------------------
(* uint32_t as <<hi, lo>>, 16 bits each.                                   *)

Half == 2^16

U32(hi, lo) == <<hi, lo>>

\* the uint32_t holding n, for 0 <= n < 2^31
FromInt(n) == <<n \div Half, n % Half>>

\* whether the value is below 2^31, so that ToInt can hold it
Fits(a) == a[1] < 2^15

ToInt(a) == a[1] * Half + a[2]

\* a + b in uint32_t: the carry out of bit 31 is dropped
Add32(a, b) ==
  LET lo == a[2] + b[2]
      hi == a[1] + b[1] + (lo \div Half)
  IN  <<hi % Half, lo % Half>>

\* whether the true sum a + b is 2^32 or more (the carry Add32 drops)
Carry32(a, b) == a[1] + b[1] + ((a[2] + b[2]) \div Half) >= Half

Gt32(a, b) == a[1] > b[1] \/ (a[1] = b[1] /\ a[2] > b[2])

\* the true integer a + b > n, for an int n below 2^31
TrueSumGt(a, b, n) == Carry32(a, b) \/ Gt32(Add32(a, b), FromInt(n))

-----------------------------------------------------------------------------
(* byteio.hpp                                                              *)

\* WriteInt32L / InsertInt32L: the four bytes of value, least significant first
WriteInt32L(value) ==
  << value[2] % 256, value[2] \div 256, value[1] % 256, value[1] \div 256 >>

\* ReadInt32L / ReadStreamAsInt32L: the uint32_t of the 4 bytes of s from position pos (1-based)
ReadInt32L(s, pos) ==
  << s[pos + 2] + 256 * s[pos + 3], s[pos] + 256 * s[pos + 1] >>

-----------------------------------------------------------------------------
(* Program constants.                                                      *)

kNDSRomMaxSize == 128 * 1024 * 1024

kPSFLibMaxNestLevel == 10

k2SFVersionByte == 36

-----------------------------------------------------------------------------
(* Paths.  A directory is the sequence of its components from the root; a  *)
(* file name as written on the command line or in a _lib tag is a relative *)
(* path: directory components (".." goes up) and a base name.              *)

Ref(dir, name) == [dir |-> dir, name |-> name]

RECURSIVE JoinDir(_, _)
JoinDir(base, rel) ==
  IF rel = <<>> THEN base
  ELSE IF Head(rel) = ".."
       THEN JoinDir(IF base = <<>> THEN <<>> ELSE SubSeq(base, 1, Len(base) - 1), Tail(rel))
       ELSE JoinDir(Append(base, Head(rel)), Tail(rel))

\* path_getabspath: the absolute path a relative file name denotes in directory dir
path_getabspath(dir, filename) == [dir |-> JoinDir(dir, filename.dir), name |-> filename.name]

\* path_dirname: the directory part of an absolute path
path_dirname(abspath) == abspath.dir

\* the directory main is started in
StartCwd == <<"w">>

-----------------------------------------------------------------------------
(* File contents.  A file is Malformed (the PSFFile constructor throws) or *)
(* the PSFFile object the constructor builds from it.  The compressed      *)
(* program is kept as what zlib makes of it: its crc32, the bytes it       *)
(* inflates to, and whether the deflate stream is corrupt after them.      *)

Malformed == [malformed |-> TRUE]

IsMalformed(file) == "malformed" \in DOMAIN file

\* the PSF format's name of the n-th library reference: _lib, _lib2, _lib3, ...
LibKey(n) == IF n = 1 THEN "_lib" ELSE "_lib" \o ToString(n)

\* the tag map holding the n-th library reference libs[n] for every n in DOMAIN libs
LibTags(libs) ==
  [key \in {LibKey(i) : i \in DOMAIN libs} |->
     libs[CHOOSE i \in DOMAIN libs : LibKey(i) = key]]

\* zlib's crc32 of a compressed program
crc32(compressed_exe) == compressed_exe.crc

\* the decompressed program: 4 bytes load_offset, 4 bytes load_size, the body
Exe(load_offset, load_size, body) ==
  WriteInt32L(load_offset) \o WriteInt32L(load_size) \o body

Blob(exe) == [crc |-> 7, exe |-> exe, corrupt |-> FALSE]

PSF(libs, exe) ==
  [ version |-> k2SFVersionByte,
    reserved |-> <<>>,
    compressed_exe |-> Blob(exe),
    compressed_exe_crc32 |-> 7,
    tags |-> LibTags(libs) ]

\* the same file with a CRC32 field that does not match the compressed program
BadCrc(psf) == [psf EXCEPT !.compressed_exe_crc32 = 8]

\* the same file with a deflate stream that breaks after n bytes of output
Corrupt(psf, n) ==
  [psf EXCEPT !.compressed_exe.exe = SubSeq(@, 1, n), !.compressed_exe.corrupt = TRUE]

\* the same file with a deflate stream that ends after n bytes of output
Short(psf, n) == [psf EXCEPT !.compressed_exe.exe = SubSeq(@, 1, n)]

-----------------------------------------------------------------------------
(* std::vector<char> rom.  A rom of up to 128 MiB is kept as its length    *)
(* and the bytes that are not 0, by 0-based index.                         *)

EmptyRom == [len |-> 0, data |-> [i \in {} |-> 0]]

RomAt(r, i) == IF i \in DOMAIN r.data THEN r.data[i] ELSE 0

\* rom.resize(n, 0): cut to n bytes, new bytes are 0
RomResize(r, n) ==
  [len |-> n, data |-> [i \in {j \in DOMAIN r.data : j < n} |-> r.data[i]]]

\* store bytes[k] at index at[k] for every k in ks; indices outside the rom are the caller's business
RomPut(r, ks, at, bytes) ==
  LET new(i) == IF \E k \in ks : at[k] = i
                THEN bytes[CHOOSE k \in ks : at[k] = i /\ \A k2 \in ks : at[k2] = i => k2 <= k]
                ELSE r.data[i]
      dom == {i \in DOMAIN r.data \cup {at[k] : k \in ks} : new(i) # 0}
  IN  [len |-> r.len, data |-> [i \in dom |-> new(i)]]

\* std::copy of bytes to rom[off], rom[off + 1], ...: all of it inside the rom
RomStore(r, off, bytes) ==
  RomPut(r, 1..Len(bytes), [k \in 1..Len(bytes) |-> off + k - 1], bytes)

-----------------------------------------------------------------------------
(* load_2sf: one activation record per invocation.                         *)

NoExc == "none"
NoDir == <<"(unset)">>
NoPSF == [version |-> 0]
NotWritten == [written |-> FALSE]

Frame(id, filename, lib_nest_level, first_load) ==
  [ id |-> id,
    filename |-> filename,
    lib_nest_level |-> lib_nest_level,
    first_load |-> first_load,
    pc |-> "nest",
    pwd |-> NoDir,
    basedir |-> NoDir,
    psf |-> NoPSF,
    lib_index |-> 0,
    exe |-> <<>>,
    load_offset |-> <<0, 0>>,
    load_size |-> <<0, 0>> ]

top == stack[Len(stack)]

\* a nest level check that stops two levels late
NestLevelExceeded_Late(lib_nest_level) == lib_nest_level >= kPSFLibMaxNestLevel + 2

\* a nest level check that lets level kPSFLibMaxNestLevel through
NestLevelExceeded_OffByOne(lib_nest_level) == lib_nest_level > kPSFLibMaxNestLevel

\* "check the psflib nest level"
NestLevelExceeded(lib_nest_level) == lib_nest_level >= kPSFLibMaxNestLevel

\* a loader that does not compare the CRC32
CrcMismatch_Never(psf) == FALSE

\* "check CRC32 of the compressed program"
CrcMismatch(psf) == psf.compressed_exe_crc32 # crc32(psf.compressed_exe)

\* a tag name that carries the number for every index: _lib1, _lib2, ...
LibTagName_Numbered(lib_index) == "_lib" \o ToString(lib_index)

\* "search for _libN tag": the tag name built in lib_tag_name_buffer
LibTagName(lib_index) ==
  IF lib_index > 1 THEN "_lib" \o ToString(lib_index) ELSE "_lib"

\* "set the current directory to the parent psf directory": chdir(basedir) (build 2)
LibDir(f) == IF build = 2 THEN f.basedir ELSE cwd

\* after the nested call: chdir(pwd) (build 2)
AfterLibDir(caller) == IF build = 2 THEN caller.pwd ELSE cwd

\* a handler that leaves the directory where the failed psflib put it
CatchDir_Stay(caller) == cwd

\* catch (std::exception) { chdir(pwd); ... } (build 2)
CatchDir(caller) == IF build = 2 THEN caller.pwd ELSE cwd

\* a handler that swallows the exception
Rethrow_Swallow(e) == "none"

\* catch (std::exception) { ...; throw; } (build 2): the exception goes on to the caller
Rethrow(e) == e

SetTop(f) == [stack EXCEPT ![Len(stack)] = f]

Running == mainpc = "load" /\ exc = NoExc /\ stack # <<>>

\* throw: the exception leaves the invocation that is running
Throw(kind) ==
  /\ exc' = kind
  /\ log' = Append(log, [ev |-> "raise", id |-> top.id, kind |-> kind])

EnterEvent(f, parent, idx, dir) ==
  [ev |-> "enter", id |-> f.id, parent |-> parent, idx |-> idx,
   depth |-> f.lib_nest_level, first |-> f.first_load, cwd |-> dir, filename |-> f.filename]

\* main, "load rom image": std::vector<char> rom; load_2sf(filename, rom);
MainLoad ==
  /\ mainpc = "start"
  /\ mainpc' = "load"
  /\ rom' = EmptyRom
  /\ stack' = <<Frame(1, arg, 0, TRUE)>>
  /\ calls' = 1
  /\ log' = Append(log, EnterEvent(Frame(1, arg, 0, TRUE), 0, 0, cwd))
  /\ UNCHANGED <<build, fs, arg, cwd, exc, status, outfile, parserVars>>

\* "check the psflib nest level", and in build 2 "save the current directory",
\* "get the absolute path", "get the directory path"
CheckNestLevel ==
  /\ Running /\ top.pc = "nest"
  /\ IF NestLevelExceeded(top.lib_nest_level)
     THEN /\ Throw("DepthExceededError")
          /\ UNCHANGED stack
     ELSE /\ stack' = SetTop([top EXCEPT
                 !.pc = "open",
                 !.pwd = IF build = 2 THEN cwd ELSE NoDir,
                 !.basedir = IF build = 2
                             THEN path_dirname(path_getabspath(cwd, top.filename))
                             ELSE NoDir])
          /\ UNCHANGED <<exc, log>>
  /\ UNCHANGED <<build, fs, arg, cwd, rom, mainpc, status, outfile, calls, parserVars>>

\* "load the psf file": PSFFile psf(filename), opened relative to the current directory
OpenPSF ==
  /\ Running /\ top.pc = "open"
  /\ LET path == path_getabspath(cwd, top.filename)
     IN  IF path \notin DOMAIN fs
         THEN Throw("IOError") /\ UNCHANGED stack
         ELSE IF IsMalformed(fs[path])
         THEN Throw("ParseError") /\ UNCHANGED stack
         ELSE /\ stack' = SetTop([top EXCEPT !.pc = "crc", !.psf = fs[path]])
              /\ log' = Append(log, [ev |-> "open", id |-> top.id, path |-> path])
              /\ UNCHANGED exc
  /\ UNCHANGED <<build, fs, arg, cwd, rom, mainpc, status, outfile, calls, parserVars>>

\* "check CRC32 of the compressed program"
CheckCRC ==
  /\ Running /\ top.pc = "crc"
  /\ IF CrcMismatch(top.psf)
     THEN Throw("IntegrityError") /\ UNCHANGED stack
     ELSE /\ stack' = SetTop([top EXCEPT !.pc = "libs", !.lib_index = 1])
          /\ UNCHANGED <<exc, log>>
  /\ UNCHANGED <<build, fs, arg, cwd, rom, mainpc, status, outfile, calls, parserVars>>

\* "load psflibs": the _libN tag is present; in build 2 chdir(basedir); then the nested call
LoadLib ==
  /\ Running /\ top.pc = "libs"
  /\ LibTagName(top.lib_index) \in DOMAIN top.psf.tags
  /\ LET callee == Frame(calls + 1, top.psf.tags[LibTagName(top.lib_index)],
                         top.lib_nest_level + 1, top.first_load)
         dir == LibDir(top)
     IN  /\ cwd' = dir
         /\ stack' = Append(SetTop([top EXCEPT !.pc = "call"]), callee)
         /\ log' = Append(log, EnterEvent(callee, top.id, top.lib_index, dir))
  /\ calls' = calls + 1
  /\ UNCHANGED <<build, fs, arg, rom, exc, mainpc, status, outfile, parserVars>>

\* "if no tag is present, end the lib loading"
EndLibs ==
  /\ Running /\ top.pc = "libs"
  /\ LibTagName(top.lib_index) \notin DOMAIN top.psf.tags
  /\ stack' = SetTop([top EXCEPT !.pc = "header"])
  /\ UNCHANGED <<build, fs, arg, cwd, rom, exc, mainpc, status, outfile, log, calls, parserVars>>

\* the nested call returned: in build 2 chdir(pwd); first_load = false; lib_index++
LibReturned ==
  /\ Running /\ Len(stack) >= 2 /\ top.pc = "done"
  /\ LET caller == stack[Len(stack) - 1]
     IN  /\ cwd' = AfterLibDir(caller)
         /\ stack' = Append(SubSeq(stack, 1, Len(stack) - 2),
                            [caller EXCEPT !.pc = "libs", !.first_load = FALSE,
                                           !.lib_index = caller.lib_index + 1])
  /\ log' = Append(log, [ev |-> "return", id |-> top.id])
  /\ UNCHANGED <<build, fs, arg, rom, exc, mainpc, status, outfile, calls, parserVars>>

\* build 1: "decompress the program area", "read the exe header";
\* build 2: "read the exe header" from the ZlibReader stream
ReadExeHeader ==
  /\ Running /\ top.pc = "header"
  /\ LET blob == top.psf.compressed_exe
     IN  IF build = 1 /\ blob.corrupt
         THEN Throw("DecompressionError") /\ UNCHANGED stack
         ELSE IF Len(blob.exe) < 8
         THEN Throw("FormatError") /\ UNCHANGED stack
         ELSE /\ stack' = SetTop([top EXCEPT !.pc = "size",
                                             !.exe = blob.exe,
                                             !.load_offset = ReadInt32L(blob.exe, 1),
                                             !.load_size = ReadInt32L(blob.exe, 5)])
              /\ log' = Append(log, [ev |-> "inflate", id |-> top.id])
              /\ UNCHANGED exc
  /\ UNCHANGED <<build, fs, arg, cwd, rom, mainpc, status, outfile, calls, parserVars>>

\* "ensure the rom buffer size": load_offset + load_size is a uint32_t sum
EnsureRomSize ==
  /\ Running /\ top.pc = "size"
  /\ LET sum == Add32(top.load_offset, top.load_size)
     IN  IF Gt32(sum, FromInt(kNDSRomMaxSize))
         THEN Throw("SizeLimitError") /\ UNCHANGED <<stack, rom>>
         ELSE IF top.first_load
         THEN /\ rom' = RomResize(rom, ToInt(sum))
              /\ stack' = SetTop([top EXCEPT !.pc = "copy"])
              /\ log' = Append(log, [ev |-> "resize", id |-> top.id, len |-> ToInt(sum)])
              /\ UNCHANGED exc
         ELSE IF ToInt(sum) > rom.len
         THEN Throw("OutOfBoundsError") /\ UNCHANGED <<stack, rom>>
         ELSE /\ stack' = SetTop([top EXCEPT !.pc = "copy"])
              /\ UNCHANGED <<rom, exc, log>>
  /\ UNCHANGED <<build, fs, arg, cwd, mainpc, status, outfile, calls, parserVars>>

\* build 1: exe.size() < 8 + load_size, the sum in unsigned int
ProgramTooShort(f) == Gt32(Add32(FromInt(8), f.load_size), FromInt(Len(f.exe)))

\* the number of bytes the copy moves when it moves fewer than 2^31:
\* build 1 moves load_size bytes, build 2 what the stream still yields, at most load_size
Moved(f) ==
  IF build = 1 THEN ToInt(f.load_size)
  ELSE IF Fits(f.load_size) /\ ToInt(f.load_size) <= Len(f.exe) - 8
       THEN ToInt(f.load_size)
       ELSE Len(f.exe) - 8

\* the bytes read lie inside the decompressed program
SourceInside(f) == build = 2 \/ ~Carry32(FromInt(8), f.load_size)

\* the bytes written lie inside the rom
DestInside(f, r) ==
  IF build = 1 THEN ~TrueSumGt(f.load_offset, f.load_size, r.len)
  ELSE Moved(f) = 0 \/ ~TrueSumGt(f.load_offset, FromInt(Moved(f)), r.len)

CopyEvent(f, n) ==
  [ev |-> "copy", id |-> f.id, off |-> f.load_offset, bytes |-> SubSeq(f.exe, 9, 8 + n)]

\* "copy the program" (build 1) / "decompress the program area" into the rom (build 2)
CopyProgram ==
  /\ Running /\ top.pc = "copy"
  /\ IF build = 1
     THEN IF ProgramTooShort(top)
          THEN Throw("CorruptDataError") /\ UNCHANGED <<stack, rom>>
          ELSE /\ SourceInside(top) /\ DestInside(top, rom)
               /\ rom' = RomStore(rom, ToInt(top.load_offset), SubSeq(top.exe, 9, 8 + Moved(top)))
               /\ stack' = SetTop([top EXCEPT !.pc = "done"])
               /\ log' = Append(log, CopyEvent(top, Moved(top)))
               /\ UNCHANGED exc
     ELSE /\ DestInside(top, rom)
          /\ rom' = IF Moved(top) = 0 THEN rom
                    ELSE RomStore(rom, ToInt(top.load_offset), SubSeq(top.exe, 9, 8 + Moved(top)))
          /\ IF FromInt(Moved(top)) # top.load_size
             THEN /\ exc' = "CorruptDataError"
                  /\ log' = log \o << CopyEvent(top, Moved(top)),
                                      [ev |-> "raise", id |-> top.id, kind |-> "CorruptDataError"] >>
                  /\ UNCHANGED stack
             ELSE /\ stack' = SetTop([top EXCEPT !.pc = "done"])
                  /\ log' = Append(log, CopyEvent(top, Moved(top)))
                  /\ UNCHANGED exc
  /\ UNCHANGED <<build, fs, arg, cwd, mainpc, status, outfile, calls, parserVars>>

\* where the k-th byte of an out-of-range copy lands: flat addressing puts only the
\* indices below the rom's length into the rom, a 32-bit address space also those
\* whose address wrapped around
Lands(f, r, k, mode) ==
  LET pos == Add32(f.load_offset, FromInt(k - 1))
  IN  /\ Fits(pos) /\ ToInt(pos) < r.len
      /\ mode = "wrap" \/ ~Carry32(f.load_offset, FromInt(k - 1))

\* The same copy when it runs outside the rom or outside the decompressed program:
\* undefined behaviour.  The process is killed, or the stray bytes go wherever the
\* addresses fall and load_2sf carries on.  A copy of 2^32 - 8 bytes or more (build 1,
\* 8 + load_size wrapped) runs off every mapping and is only ever killed.
CopyOutOfBounds ==
  /\ Running /\ top.pc = "copy"
  /\ build = 1 => ~ProgramTooShort(top)
  /\ ~(SourceInside(top) /\ DestInside(top, rom))
  /\ \E outcome \in {"killed", "flat", "wrap"} :
       IF outcome = "killed"
       THEN /\ mainpc' = "killed"
            /\ status' = 139
            /\ log' = Append(log, [ev |-> "ub", id |-> top.id])
            /\ UNCHANGED <<stack, rom, exc>>
       ELSE /\ SourceInside(top)
            /\ LET ks == {k \in 1..Moved(top) : Lands(top, rom, k, outcome)}
                   at == [k \in ks |-> ToInt(Add32(top.load_offset, FromInt(k - 1)))]
               IN  rom' = RomPut(rom, ks, at, SubSeq(top.exe, 9, 8 + Moved(top)))
            /\ IF FromInt(Moved(top)) # top.load_size
               THEN /\ exc' = "CorruptDataError"
                    /\ log' = log \o << [ev |-> "ub", id |-> top.id],
                                        [ev |-> "raise", id |-> top.id, kind |-> "CorruptDataError"] >>
                    /\ UNCHANGED stack
               ELSE /\ stack' = SetTop([top EXCEPT !.pc = "done"])
                    /\ log' = Append(log, [ev |-> "ub", id |-> top.id])
                    /\ UNCHANGED exc
            /\ UNCHANGED <<mainpc, status>>
  /\ UNCHANGED <<build, fs, arg, cwd, outfile, calls, parserVars>>

\* The exception leaves the invocation on top of the stack.  In build 2 the caller
\* below is inside its try block: catch (std::exception) { chdir(pwd); throw; };
\* in build 1 it has no handler and the exception passes through.
Unwind ==
  /\ mainpc = "load" /\ exc # NoExc /\ stack # <<>>
  /\ stack' = SubSeq(stack, 1, Len(stack) - 1)
  /\ IF Len(stack) >= 2
     THEN cwd' = CatchDir(stack[Len(stack) - 1]) /\ exc' = Rethrow(exc)
     ELSE UNCHANGED <<cwd, exc>>
  /\ UNCHANGED <<build, fs, arg, rom, mainpc, status, outfile, log, calls, parserVars>>

\* main: catch (std::exception ex) { print the error; return 1; }
MainCatch ==
  /\ mainpc = "load" /\ exc # NoExc /\ stack = <<>>
  /\ mainpc' = "done"
  /\ status' = 1
  /\ UNCHANGED <<build, fs, arg, cwd, stack, rom, exc, outfile, log, calls, parserVars>>

\* main: load_2sf returned; "write decompressed rom to file"; main ends (status 0)
MainWrite ==
  /\ mainpc = "load" /\ exc = NoExc /\ Len(stack) = 1 /\ top.pc = "done"
  /\ stack' = <<>>
  /\ outfile' = [written |-> TRUE, rom |-> rom]
  /\ mainpc' = "done"
  /\ status' = 0
  /\ log' = Append(log, [ev |-> "return", id |-> top.id])
  /\ UNCHANGED <<build, fs, arg, cwd, rom, exc, calls, parserVars>>

-----------------------------------------------------------------------------
(* The inputs: what main is started on.  A configuration is a file system  *)
(* and the 2sf-file argument.  Five families of configurations exercise    *)
(* the tag map, the payload checks, the 32-bit header values, the nesting  *)
(* depth and the directories.                                              *)

\* the k-th body byte of the file called name: root holds 00 01 02 ..., a holds A1 A2 ...
BodyByte(name, k) ==
  CASE name = "root" -> k - 1
    [] name = "a" -> 160 + k
    [] name = "b" -> 176 + k
    [] name = "c" -> 192 + k
    [] OTHER -> 208 + k

Body(name, n) == [k \in 1..n |-> BodyByte(name, k)]

\* a well-formed file called name: load_offset off, load_size size (ints), the whole body present
Plain(name, libs, off, size) == PSF(libs, Exe(FromInt(off), FromInt(size), Body(name, size)))

Here(name) == Ref(<<>>, name)

At(dir, name) == [dir |-> dir, name |-> name]

\* all maps from a subset of 1..n to targets
PartialMaps(n, targets) == UNION {[S -> targets] : S \in SUBSET (1..n)}

Config(files, filename) == [fs |-> files, arg |-> filename]

\* the tag map: root names a and b under any subset of _lib .. _libN, a may name c
TagConfigs ==
  { Config( At(StartCwd, "root") :> Plain("root", rl, 0, 1)
         @@ At(StartCwd, "a") :> Plain("a", al, 1, 1)
         @@ At(StartCwd, "b") :> Plain("b", <<>>, 0, 2)
         @@ At(StartCwd, "c") :> Plain("c", <<>>, 0, 2),
            Here("root") )
    : rl \in PartialMaps(MaxLibIdx, {Here("a"), Here("b")}),
      al \in {m \in PartialMaps(2, {Here("c")}) : Cardinality(DOMAIN m) <= 1} }

\* what can be wrong with one file
Faults == {"crc", "corrupt4", "corrupt9", "corruptEnd", "short4", "short1", "malformed"}

Faulty(psf, fault) ==
  CASE fault = "crc" -> BadCrc(psf)
    [] fault = "corrupt4" -> Corrupt(psf, 4)
    [] fault = "corrupt9" -> Corrupt(psf, 9)
    [] fault = "corruptEnd" -> Corrupt(psf, Len(psf.compressed_exe.exe))
    [] fault = "short4" -> Short(psf, 4)
    [] fault = "short1" -> Short(psf, Len(psf.compressed_exe.exe) - 1)
    [] fault = "malformed" -> Malformed
    [] OTHER -> psf

\* the three files of the payload family, root naming a as _lib and b as _lib2
Trio(r, a, b) ==
  At(StartCwd, "root") :> r @@ At(StartCwd, "a") :> a @@ At(StartCwd, "b") :> b

RootLibs == <<Here("a"), Here("b")>>

\* the payload checks: every small load_offset and load_size in each of three files,
\* and every fault in each of them
PayloadConfigs ==
  { Config(Trio(Plain("root", RootLibs, ro, rs), Plain("a", <<>>, ao, as), Plain("b", <<>>, bo, bs)),
           Here("root"))
    : ro \in 0..1, rs \in 0..MaxBody, ao \in 0..1, as \in 0..MaxBody, bo \in 0..1, bs \in 0..MaxBody }
  \cup
  { Config(Trio(Faulty(Plain("root", RootLibs, 0, 2), IF who = "root" THEN f ELSE "none"),
                Faulty(Plain("a", <<>>, 0, 2), IF who = "a" THEN f ELSE "none"),
                Faulty(Plain("b", <<>>, 1, 1), IF who = "b" THEN f ELSE "none")),
           Here("root"))
    : who \in {"root", "a", "b"}, f \in Faults }
  \cup
  { Config(At(StartCwd, "root") :> Plain("root", <<Here("gone")>>, 0, 1), Here("root")) }

\* 32-bit header values: small ones, those around 128 MiB, and those around 2^32
Vals32 ==
  { U32(0, 0), U32(0, 1), U32(0, 2), U32(2047, 65535), U32(2048, 0),
    U32(65535, 65528), U32(65535, 65534), U32(65535, 65535) }

\* the header values: root alone, or root after a library that sized the rom to 2 bytes
NumConfigs ==
  { Config( At(StartCwd, "root") :> PSF(libs, Exe(off, size, Body("root", n)))
         @@ At(StartCwd, "a") :> Plain("a", <<>>, 0, 2),
            Here("root") )
    : off \in Vals32, size \in Vals32, n \in 0..MaxBody, libs \in {<<>>, <<Here("a")>>} }

\* the name of the i-th file of a chain
ChainName(i) == "f" \o ToString(i)

\* the nesting depth: f0 names f1 names f2 ... down to fK, and the cycles
ChainConfigs ==
  { Config([p \in {At(StartCwd, ChainName(i)) : i \in 0..last} |->
              LET i == CHOOSE j \in 0..last : p.name = ChainName(j)
              IN  Plain("f", IF i < last THEN <<Here(ChainName(i + 1))>> ELSE <<>>, 0, 1)],
           Here(ChainName(0)))
    : last \in {kPSFLibMaxNestLevel - 1, kPSFLibMaxNestLevel, kPSFLibMaxNestLevel + 1} }
  \cup
  { Config(At(StartCwd, "root") :> Plain("root", <<Here("root")>>, 0, 1), Here("root")),
    Config(At(StartCwd, "root") :> Plain("root", <<Here("a")>>, 0, 1)
        @@ At(StartCwd, "a") :> Plain("a", <<Here("root")>>, 0, 1), Here("root")),
    Config(At(StartCwd, "root") :> Plain("root", <<Here("a"), Here("root")>>, 0, 1)
        @@ At(StartCwd, "a") :> Plain("a", <<>>, 0, 1), Here("root")),
    Config(At(StartCwd, "root") :> Plain("root", <<Here("a")>>, 0, 1)
        @@ At(StartCwd, "a") :> Faulty(Plain("a", <<Here("root")>>, 0, 1), "crc"),
           Here("root")),
    Config(At(StartCwd, "root") :> Plain("root", <<Here("a"), Here("b")>>, 0, 1)
        @@ At(StartCwd, "a") :> Plain("a", <<>>, 0, 1)
        @@ At(StartCwd, "b") :> Plain("b", <<Here("b")>>, 0, 1), Here("root")) }

\* the directories: main is started in /w on m/root; the libraries sit in /w/m and
\* /w/m/l, under names that also exist, with other contents, in /w and /w/l
DirConfigs ==
  { Config( At(<<"w", "m">>, "root") :> Plain("root", <<Ref(<<"l">>, "x"), Here("y")>>, 0, 1)
         @@ At(<<"w", "m", "l">>, "x") :> Plain("a", xl, 0, 2)
         @@ At(<<"w", "m">>, "y") :> Plain("b", <<>>, 1, 1)
         @@ At(<<"w", "m", "l">>, "z") :> Faulty(Plain("c", <<>>, 0, 1), zf)
         @@ decoys,
            Ref(<<"m">>, "root") )
    : xl \in {<<>>, <<Ref(<<"..">>, "y")>>, <<Here("z")>>, <<Here("y")>>},
      zf \in {"none", "crc"},
      decoys \in { <<>>,
                   At(<<"w">>, "y") :> Plain("c", <<>>, 0, 1)
                @@ At(<<"w", "l">>, "x") :> Plain("c", <<>>, 0, 2)
                @@ At(<<"w">>, "z") :> Plain("c", <<>>, 0, 1) } }

Configs == TagConfigs \cup PayloadConfigs \cup NumConfigs \cup ChainConfigs \cup DirConfigs

Idle == [state |-> "idle"]

Init ==
  /\ build \in {1, 2}
  /\ \E c \in Configs : fs = c.fs /\ arg = c.arg
  /\ cwd = StartCwd
  /\ stack = <<>>
  /\ rom = EmptyRom
  /\ exc = NoExc
  /\ mainpc = "start"
  /\ status = -1
  /\ outfile = NotWritten
  /\ log = <<>>
  /\ calls = 0
  /\ input = [len |-> <<0, 0>>, data |-> <<>>]
  /\ output = NotWritten
  /\ reparsed = Idle
  /\ parsed = Idle

Next ==
  \/ MainLoad
  \/ CheckNestLevel
  \/ OpenPSF
  \/ CheckCRC
  \/ LoadLib
  \/ EndLibs
  \/ LibReturned
  \/ ReadExeHeader
  \/ EnsureRomSize
  \/ CopyProgram
  \/ CopyOutOfBounds
  \/ Unwind
  \/ MainCatch
  \/ MainWrite

Spec == Init /\ [][Next]_vars

-----------------------------------------------------------------------------
(* Reading the history.                                                    *)

\* the log positions holding an event of the kind
EventsOf(kind) == {j \in 1..Len(log) : log[j].ev = kind}

\* the ids of the invocations of load_2sf so far
Invocations == {log[j].id : j \in EventsOf("enter")}

EnterOf(id) == log[CHOOSE j \in EventsOf("enter") : log[j].id = id]

\* the invocations that got their file open and parsed
Opened == {log[j].id : j \in EventsOf("open")}

\* the parsed file of an invocation in Opened
FileOf(id) == fs[log[CHOOSE j \in EventsOf("open") : log[j].id = id].path]

ExeOf(id) == FileOf(id).compressed_exe.exe

\* the header values a file declares (its decompressed program has the 8 header bytes)
OffsetOf(id) == ReadInt32L(ExeOf(id), 1)

SizeOf(id) == ReadInt32L(ExeOf(id), 5)

\* the library indices under which invocation id has called so far, and the callee
LibsCalled(id) == {log[j].idx : j \in {e \in EventsOf("enter") : log[e].parent = id}}

Callee(id, n) ==
  log[CHOOSE j \in EventsOf("enter") : log[j].parent = id /\ log[j].idx = n].id

Raised == EventsOf("raise") # {}

Succeeded == mainpc = "done" /\ status = 0

Failed == mainpc = "done" /\ status # 0

\* the tree of invocations in post-order: the subtrees of the libraries by ascending
\* index, then the invocation itself
RECURSIVE PostOrderFrom(_, _)
PostOrderFrom(id, n) ==
  LET rest == {m \in LibsCalled(id) : m >= n}
  IN  IF rest = {} THEN <<id>>
      ELSE LET m == CHOOSE x \in rest : \A y \in rest : x <= y
           IN  PostOrderFrom(Callee(id, m), 1) \o PostOrderFrom(id, m + 1)

PostOrder == PostOrderFrom(1, 1)

\* the payload of invocation id covers index p of the image (true integers)
Covers(id, p) ==
  /\ Fits(OffsetOf(id)) /\ ToInt(OffsetOf(id)) <= p
  /\ Gt32(SizeOf(id), FromInt(p - ToInt(OffsetOf(id))))

\* the byte the payload of invocation id holds for index p, -1 if its data ends before
PayloadByte(id, p) ==
  LET k == 9 + (p - ToInt(OffsetOf(id)))
  IN  IF k <= Len(ExeOf(id)) THEN ExeOf(id)[k] ELSE -1

\* the byte at index p after overlaying the payloads in the given order on zeros
OverlayAt(order, p) ==
  LET over == {k \in 1..Len(order) : Covers(order[k], p)}
  IN  IF over = {} THEN 0
      ELSE PayloadByte(order[CHOOSE k \in over : \A k2 \in over : k2 <= k], p)

\* the whole payload of every file lies inside the image and is there to be copied
PayloadsInside(order, len) ==
  \A k \in 1..Len(order) :
    /\ Len(ExeOf(order[k])) >= 8
    /\ ~TrueSumGt(OffsetOf(order[k]), SizeOf(order[k]), len)
    /\ ~TrueSumGt(FromInt(8), SizeOf(order[k]), Len(ExeOf(order[k])))

PayloadIndices(order) ==
  UNION { {ToInt(OffsetOf(order[k])) + i : i \in 0..(ToInt(SizeOf(order[k])) - 1)}
          : k \in 1..Len(order) }

\* some copy ran outside the rom or outside the decompressed program
UndefinedBehaviour == EventsOf("ub") # {}

-----------------------------------------------------------------------------
(* The claims.                                                             *)

\* C1: whenever load succeeds, the returned buffer is a zero-filled buffer overlaid
\* with every loaded file's payload at its load_offset, in post-order of the
\* reference tree (libraries by ascending index first, then the file itself): the
\* later payload wins, the root's payload wins over all, uncovered bytes are 0.
C1_PostOrderOverlay ==
  Succeeded =>
    /\ PayloadsInside(PostOrder, rom.len)
    /\ \A p \in DOMAIN rom.data \cup PayloadIndices(PostOrder) :
         RomAt(rom, p) = OverlayAt(PostOrder, p)
    /\ outfile = [written |-> TRUE, rom |-> rom]

\* every header read so far has load_offset + load_size and 8 + load_size below 2^32
SumsFit32 ==
  \A j \in EventsOf("inflate") :
    /\ ~Carry32(OffsetOf(log[j].id), SizeOf(log[j].id))
    /\ ~Carry32(FromInt(8), SizeOf(log[j].id))

\* C1 restricted to the runs whose header sums all fit in 32 bits
C1_PostOrderOverlay_Fits32 == SumsFit32 => C1_PostOrderOverlay

\* the invocation is reached from the root through first library references only
RECURSIVE OnFirstLibPath(_)
OnFirstLibPath(id) ==
  id = 1 \/ (EnterOf(id).idx = 1 /\ OnFirstLibPath(EnterOf(id).parent))

\* C2: during one load the buffer is sized exactly once, by the first payload that
\* reaches the sizing step (the file reached from the root through first library
\* references only), to exactly load_offset + load_size of that payload; every other
\* file is processed with first_load false and the length never changes afterwards.
C2_SizedOnceByFirstPayload ==
  /\ Cardinality(EventsOf("resize")) <= 1
  /\ EventsOf("resize") = {} => rom.len = 0
  /\ \A j \in EventsOf("resize") :
       /\ rom.len = log[j].len
       /\ ~Carry32(OffsetOf(log[j].id), SizeOf(log[j].id))
       /\ Add32(OffsetOf(log[j].id), SizeOf(log[j].id)) = FromInt(log[j].len)
       /\ OnFirstLibPath(log[j].id) /\ LibsCalled(log[j].id) = {}
       /\ \A i \in 1..(j - 1) : log[i].ev \notin {"copy", "ub", "resize"}
  /\ \A k \in 1..Len(stack) :
       stack[k].pc \in {"size", "copy", "done"} =>
         (stack[k].first_load <=> (OnFirstLibPath(stack[k].id) /\ LibsCalled(stack[k].id) = {}))

\* C2 restricted to the runs whose header sums all fit in 32 bits
C2_SizedOnceByFirstPayload_Fits32 == SumsFit32 => C2_SizedOnceByFirstPayload

\* C3: for all 32-bit load_offset and load_size whose true sum exceeds 128 MiB
\* (134217728), sums of 2^32 or more included, resolve fails with SizeLimitError
\* before the buffer is resized and before any byte of the payload is copied.
C3_SizeLimit ==
  /\ \A k \in 1..Len(stack) :
       (stack[k].pc \in {"copy", "done"}
          => ~TrueSumGt(stack[k].load_offset, stack[k].load_size, 134217728))
  /\ \A j \in EventsOf("resize") \cup EventsOf("copy") \cup EventsOf("ub") :
       ~TrueSumGt(OffsetOf(log[j].id), SizeOf(log[j].id), 134217728)
  /\ \A j \in EventsOf("raise") :
       (j > 1 /\ log[j - 1] = [ev |-> "inflate", id |-> log[j].id]
          /\ TrueSumGt(OffsetOf(log[j].id), SizeOf(log[j].id), 134217728))
         => log[j].kind = "SizeLimitError"

\* C3 restricted to the runs whose header sums all fit in 32 bits
C3_SizeLimit_Fits32 == SumsFit32 => C3_SizeLimit

\* C4: a payload processed with first_load false whose load_offset + load_size
\* exceeds the current buffer length does not get past the bounds check (resolve
\* fails, nothing of it is copied) and the buffer is never enlarged for it.
C4_LaterPayloadInsideBuffer ==
  \A k \in 1..Len(stack) :
    (~stack[k].first_load /\ stack[k].pc \in {"copy", "done"})
      => ~TrueSumGt(stack[k].load_offset, stack[k].load_size, rom.len)

\* C4 restricted to the runs whose header sums all fit in 32 bits
C4_LaterPayloadInsideBuffer_Fits32 == SumsFit32 => C4_LaterPayloadInsideBuffer

-----------------------------------------------------------------------------
(* The nest level, the CRC32 and the psflib tags.                          *)

\* an event of the log is the raise of the given kind
IsRaise(j, kind) == log[j].ev = "raise" /\ log[j].kind = kind

\* the file system is a chain of 11 nested _lib references starting at the root:
\* the file at level i, for i = 0..10, names the file at level i + 1 as _lib
ChainOf11 ==
  /\ arg = Here(ChainName(0))
  /\ \A i \in 0..10 :
       /\ At(StartCwd, ChainName(i)) \in DOMAIN fs
       /\ "_lib" \in DOMAIN fs[At(StartCwd, ChainName(i))].tags
       /\ fs[At(StartCwd, ChainName(i))].tags["_lib"] = Here(ChainName(i + 1))

\* C5: load_2sf invoked at nest level d (root 0, each psflib one more) fails with
\* DepthExceededError if and only if d >= 10, before the file of that level is opened
\* or parsed; a chain of 11 nested _lib references fails with DepthExceededError and
\* nothing is written for a file of level 10 or deeper.
C5_DepthCeiling ==
  /\ \A k \in 1..Len(stack) : stack[k].pc # "nest" => stack[k].lib_nest_level < 10
  /\ \A j \in EventsOf("raise") :
       IsRaise(j, "DepthExceededError") <=> EnterOf(log[j].id).depth >= 10
  /\ \A id \in Invocations :
       EnterOf(id).depth >= 10 =>
         /\ id \notin Opened
         /\ \A j \in 1..Len(log) : log[j].id = id => log[j].ev \in {"enter", "raise"}
         /\ mainpc = "done" => (exc = "DepthExceededError" /\ status = 1 /\ outfile = NotWritten)
  /\ (ChainOf11 /\ mainpc = "done") =>
       (exc = "DepthExceededError" /\ status = 1 /\ outfile = NotWritten)

\* the load of a chain of 11 has ended in DepthExceededError raised at level 10
C5_Witness ==
  /\ ChainOf11 /\ mainpc = "done" /\ exc = "DepthExceededError"
  /\ \E j \in EventsOf("raise") : EnterOf(log[j].id).depth = 10
  /\ \E id \in Opened : EnterOf(id).depth = 9

\* the stored CRC32 of a parsed file differs from the CRC32 of its compressed program
BadCrcFile(psf) == psf.compressed_exe_crc32 # psf.compressed_exe.crc

\* C6: for every file reached whose stored CRC32 differs from the CRC32 of its
\* compressed program, load_2sf fails with IntegrityError before any psflib of the
\* file is resolved and before its program is decompressed or copied; the failure
\* aborts the whole load and no output is produced (a root with a bad CRC leaves the
\* rom empty).
C6_CrcIntegrity ==
  /\ \A k \in 1..Len(stack) :
       stack[k].pc \notin {"nest", "open", "crc"} => ~BadCrcFile(stack[k].psf)
  /\ \A j \in EventsOf("open") :
       BadCrcFile(fs[log[j].path]) =>
         \/ /\ j = Len(log) /\ exc = NoExc /\ mainpc = "load"
            /\ top.id = log[j].id /\ top.pc = "crc"
         \/ /\ Len(log) = j + 1 /\ IsRaise(j + 1, "IntegrityError")
            /\ log[j + 1].id = log[j].id
            /\ exc = "IntegrityError"
            /\ outfile = NotWritten
            /\ mainpc = "done" => status = 1
            /\ log[j].id = 1 => rom = EmptyRom
            /\ ENABLED (Unwind \/ MainCatch) \/ mainpc = "done"

\* a psflib with a bad CRC32, reached after another psflib was copied, has ended the load
C6_Witness ==
  /\ mainpc = "done" /\ status = 1 /\ exc = "IntegrityError" /\ outfile = NotWritten
  /\ rom.len > 0
  /\ \E j \in EventsOf("open") : BadCrcFile(fs[log[j].path]) /\ log[j].id > 1

\* K of a tag map: the largest index with every one of _lib, _lib2, ..., _libK present
LibCount(tags) ==
  CHOOSE k \in 0..Cardinality(DOMAIN tags) :
    /\ \A i \in 1..k : LibKey(i) \in DOMAIN tags
    /\ LibKey(k + 1) \notin DOMAIN tags

\* C7: for every parsed file, load_2sf recurses into exactly _lib, _lib2, ..., _libK
\* in ascending order, one after the other, K being the largest index with all of
\* _lib .. _libK present (0 when _lib is absent); a tag after a gap is never loaded.
C7_LibOrder ==
  /\ \A id \in Invocations : LibsCalled(id) # {} => id \in Opened
  /\ \A id \in Opened :
       LET tags == FileOf(id).tags
           K == LibCount(tags)
           ent(n) == CHOOSE j \in EventsOf("enter") : log[j].parent = id /\ log[j].idx = n
       IN  /\ \E j \in 0..K : LibsCalled(id) = 1..j
           /\ Cardinality({j \in EventsOf("enter") : log[j].parent = id})
                = Cardinality(LibsCalled(id))
           /\ \A n \in LibsCalled(id) :
                /\ log[ent(n)].filename = tags[LibKey(n)]
                /\ (n + 1) \in LibsCalled(id) =>
                     \E r \in EventsOf("return") :
                       log[r].id = log[ent(n)].id /\ ent(n) < r /\ r < ent(n + 1)
  /\ \A k \in 1..Len(stack) :
       stack[k].pc \in {"header", "size", "copy", "done"} =>
         LibsCalled(stack[k].id) = 1..LibCount(stack[k].psf.tags)

\* a load has succeeded on a root with _lib and _lib3 but no _lib2: only _lib was loaded
C7_Witness ==
  /\ Succeeded
  /\ 1 \in Opened
  /\ {"_lib", "_lib3"} \subseteq DOMAIN FileOf(1).tags
  /\ "_lib2" \notin DOMAIN FileOf(1).tags
  /\ LibsCalled(1) = {1}

-----------------------------------------------------------------------------
(* The working directory and the exceptions.                               *)

\* the path under which invocation id opened its file
PathOf(id) == log[CHOOSE j \in EventsOf("open") : log[j].id = id].path

C9_FailureAborts ==
  /\ \A j \in EventsOf("raise") :
       /\ j = Len(log)
       /\ exc = log[j].kind
       /\ outfile = NotWritten
       /\ mainpc \in {"load", "done"}
       /\ mainpc = "done" => (status # 0 /\ status # -1 /\ stack = <<>>)
       /\ mainpc = "load" => ENABLED (Unwind \/ MainCatch)
  /\ exc # NoExc => Raised
  /\ outfile # NotWritten =>
       /\ ~Raised /\ exc = NoExc
       /\ mainpc = "done" /\ status = 0 /\ stack = <<>>
       /\ log[Len(log)] = [ev |-> "return", id |-> 1]
       /\ outfile = [written |-> TRUE, rom |-> rom]

\* a failure raised two levels down, after a payload was copied, has ended main with
\* status 1 and no output file
C9_Witness ==
  /\ mainpc = "done" /\ status = 1 /\ outfile = NotWritten /\ stack = <<>>
  /\ EventsOf("copy") # {}
  /\ \E j \in EventsOf("raise") : EnterOf(log[j].id).depth >= 2 /\ log[j].kind = exc

-----------------------------------------------------------------------------
(* PSFFile::PSFFile(const std::string & filename): the container reader.   *)
(* Offsets are 0-based as in the code.  A file may be longer than 2^32     *)
(* bytes, which is where uint32_t and size_t arithmetic part, so files and *)
(* the strings read from them are kept by their length and their non-zero  *)
(* bytes; the text of a tag area is a sequence, offset i its element i + 1.*)

\* longest run of bytes put after the 16-byte header of a file
MaxTail == 4

kPSFSignature == <<80, 83, 70>>

kPSFSignatureSize == 3

kPSFTagMarker == <<91, 84, 65, 71, 93>>

kPSFTagMarkerSize == 5

\* size_t, uintmax_t and std::streamsize of a 64-bit build as <<hi, lo>>, lo of 16
\* bits: a + b, which no file here brings near 2^64
SizeAdd(a, b) ==
  LET lo == a[2] + b[2]
  IN  <<a[1] + b[1] + (lo \div Half), lo % Half>>

\* a - b, for a >= b
SizeSub(a, b) ==
  IF a[2] >= b[2] THEN <<a[1] - b[1], a[2] - b[2]>>
  ELSE <<a[1] - b[1] - 1, a[2] + Half - b[2]>>

\* static_cast<uint32_t>(size)
Trunc32(a) == <<a[1] % Half, a[2]>>

\* a std::string or the content of a file: len bytes, those in data and zeros elsewhere
NoBytes == [i \in {} |-> 0]

Zeros(n) == [len |-> n, data |-> NoBytes]

StrOf(bytes) ==
  [ len |-> FromInt(Len(bytes)),
    data |-> [ i \in {FromInt(k - 1) : k \in {k \in 1..Len(bytes) : bytes[k] # 0}}
               |-> bytes[ToInt(i) + 1] ] ]

ByteAt(str, i) == IF i \in DOMAIN str.data THEN str.data[i] ELSE 0

\* the bytes of a string shorter than 2^31 as a sequence
SeqOf(str) == [k \in 1..ToInt(str.len) |-> ByteAt(str, FromInt(k - 1))]

\* the n bytes of str from offset pos, for pos + n inside str
Slice(str, pos, n) ==
  [ len |-> n,
    data |-> [ j \in { SizeSub(i, pos) :
                       i \in {i \in DOMAIN str.data :
                                ~Gt32(pos, i) /\ Gt32(SizeAdd(pos, n), i)} }
               |-> str.data[SizeAdd(j, pos)] ] ]

\* a followed by b
Cat(a, b) ==
  [ len |-> SizeAdd(a.len, b.len),
    data |-> [ i \in DOMAIN a.data \cup {SizeAdd(j, a.len) : j \in DOMAIN b.data}
               |-> IF i \in DOMAIN a.data THEN a.data[i] ELSE b.data[SizeSub(i, a.len)] ] ]

\* std::string::substr(pos, n), for pos + n inside the string
substr(str, pos, n) == SubSeq(str, pos + 1, pos + n)

\* std::string::find of one character from offset pos: its offset, or -1 for npos
find(str, ch, pos) ==
  IF \E i \in pos..(Len(str) - 1) : str[i + 1] = ch
  THEN CHOOSE i \in pos..(Len(str) - 1) :
         str[i + 1] = ch /\ \A j \in pos..(i - 1) : str[j + 1] # ch
  ELSE -1

\* in.read(buffer, count) at stream offset pos: the bytes it delivers, which are
\* fewer than count when the file ends first
istream_read(in, pos, count) ==
  LET avail == IF Gt32(in.len, pos) THEN SizeSub(in.len, pos) ELSE FromInt(0)
      n == IF Gt32(count, avail) THEN avail ELSE count
  IN  Slice(in, pos, n)

\* a reader that takes every read for complete
GcountDiffers_Never(got, count) == FALSE

\* in.gcount() != count
GcountDiffers(got, count) == got.len # count

\* ReadStreamAsInt8 at stream offset pos
ReadStreamAsInt8(in, pos) ==
  IF ~Gt32(FromInt(pos + 1), in.len) THEN [ok |-> TRUE, out |-> ByteAt(in, FromInt(pos))]
  ELSE [ok |-> FALSE, out |-> 0]

\* ReadStreamAsInt32L at stream offset pos
ReadStreamAsInt32L(in, pos) ==
  IF ~Gt32(FromInt(pos + 4), in.len)
  THEN [ok |-> TRUE, out |-> ReadInt32L(SeqOf(Slice(in, FromInt(pos), FromInt(4))), 1)]
  ELSE [ok |-> FALSE, out |-> U32(0, 0)]

\* the constructor throws
Thrown(what) == [state |-> "error", what |-> what]

\* std::string::resize(size): a size of 2^31 or more is beyond max_size() of a 32-bit
\* build (std::length_error) and may be more than a 64-bit build can allocate
\* (std::bad_alloc); otherwise, and whenever the file holds the bytes asked for, the
\* allocation is taken to succeed
ResizeThrows(size) == IF Fits(size) THEN {} ELSE {Thrown("std::bad_alloc")}

\* "Whitespace at the beginning/end of the line and before/after the = are ignored":
\* the end offset after the first trimming loop, the start offset after the second
TrimEnd_None(str, start, end) == end

TrimEnd(str, start, end) ==
  CHOOSE e \in start..end :
    /\ \A i \in e..(end - 1) : str[i + 1] <= 32
    /\ e = start \/ str[e] > 32

TrimStart(str, start, end) ==
  CHOOSE b \in start..end :
    /\ \A i \in start..(b - 1) : str[i + 1] <= 32
    /\ b = end \/ str[b + 1] > 32

\* a map in which a later line of a variable replaces the earlier ones
AddTag_Replace(tags, key, value) ==
  [k \in DOMAIN tags \cup {key} |-> IF k = key THEN value ELSE tags[k]]

\* "Add to the tag map": lower_bound finds the entry of the key, if there is one; the
\* value is appended to it after a newline, and inserted otherwise
AddTag(tags, key, value) ==
  IF key \in DOMAIN tags
  THEN [tags EXCEPT ![key] = @ \o <<10>> \o value]
  ELSE tags @@ (key :> value)

\* "Parse tag section": the loop over the lines of tag_string from tag_start_offset on
RECURSIVE ParseTagLines(_, _, _)
ParseTagLines(tag_string, tag_start_offset, tags) ==
  IF ~(tag_start_offset < Len(tag_string)) THEN tags
  ELSE
    LET newline == find(tag_string, 10, tag_start_offset)
        tag_end_offset == IF newline = -1 THEN Len(tag_string) ELSE newline
        tag_line == substr(tag_string, tag_start_offset, tag_end_offset - tag_start_offset)
        separator == find(tag_line, 61, 0)
    IN  IF separator = -1
        THEN ParseTagLines(tag_string, tag_end_offset + 1, tags)
        ELSE
          LET tag_separator_offset == separator + tag_start_offset
              name_end_offset == TrimEnd(tag_string, tag_start_offset, tag_separator_offset)
              value_end_offset == TrimEnd(tag_string, tag_separator_offset + 1, tag_end_offset)
              name_start_offset == TrimStart(tag_string, tag_start_offset, name_end_offset)
              value_start_offset ==
                TrimStart(tag_string, tag_separator_offset + 1, value_end_offset)
              key == substr(tag_string, name_start_offset, name_end_offset - name_start_offset)
              value == substr(tag_string, value_start_offset,
                              value_end_offset - value_start_offset)
          IN  ParseTagLines(tag_string, tag_end_offset + 1, AddTag(tags, key, value))

\* no tags: the map of a PSFFile whose file has no tag area
NoTags == [key \in {} |-> <<>>]

\* "check the tag marker (optional area)": the outcomes of the rest of the
\* constructor, for the object built from the mandatory area; pos is the stream
\* offset and psf_mandatory_size the uint32_t sum widened to size_t.  tag_size
\* subtracts from the file size a sum that is again made in uint32_t; the string of
\* that size is taken to be allocated.
ReadTagArea(in, pos, psf_mandatory_size, object) ==
  LET psf_size == in.len
      tag_marker == istream_read(in, pos, FromInt(kPSFTagMarkerSize))
  IN  IF Gt32(SizeAdd(psf_mandatory_size, FromInt(kPSFTagMarkerSize)), psf_size) THEN {object}
      ELSE IF ~(tag_marker.len = FromInt(kPSFTagMarkerSize) /\ SeqOf(tag_marker) = kPSFTagMarker)
        THEN {object}
      ELSE
        LET tag_size == SizeSub(psf_size, Add32(psf_mandatory_size, FromInt(kPSFTagMarkerSize)))
            tag_string == istream_read(in, SizeAdd(pos, FromInt(kPSFTagMarkerSize)), tag_size)
        IN  IF tag_string.len # tag_size
            THEN {Thrown("Unable to read the tag area.")}
            ELSE {[object EXCEPT !.tags = ParseTagLines(SeqOf(tag_string), 0, NoTags)]}

\* the outcomes of PSFFile(filename) on a file holding the bytes in
PSFFile(in) ==
  LET psf_size == in.len
      signature == istream_read(in, FromInt(0), FromInt(kPSFSignatureSize))
      version == ReadStreamAsInt8(in, 3)
      reserved_size == ReadStreamAsInt32L(in, 4)
      compressed_exe_size == ReadStreamAsInt32L(in, 8)
      compressed_exe_crc32 == ReadStreamAsInt32L(in, 12)
      psf_mandatory_size == Add32(Add32(FromInt(16), reserved_size.out), compressed_exe_size.out)
      reserved == istream_read(in, FromInt(16), reserved_size.out)
      compressed_exe ==
        istream_read(in, SizeAdd(FromInt(16), reserved.len), compressed_exe_size.out)
  IN  IF signature.len # FromInt(kPSFSignatureSize)
        THEN {Thrown("Unable to read the PSF signature.")}
      ELSE IF SeqOf(signature) # kPSFSignature
        THEN {Thrown("Invalid PSF signature. ")}
      ELSE IF ~version.ok
        THEN {Thrown("Unable to read the version byte.")}
      ELSE IF ~reserved_size.ok
        THEN {Thrown("Unable to read the size of reserved area.")}
      ELSE IF ~compressed_exe_size.ok
        THEN {Thrown("Unable to read the size of compressed program.")}
      ELSE IF ~compressed_exe_crc32.ok
        THEN {Thrown("Unable to read the CRC32 of compressed program.")}
      ELSE IF Gt32(psf_mandatory_size, psf_size)
        THEN {Thrown("File is too short than expected.")}
      ELSE IF GcountDiffers(reserved, reserved_size.out)
        THEN {Thrown("Unable to read the reserved area.")} \cup ResizeThrows(reserved_size.out)
      ELSE IF GcountDiffers(compressed_exe, compressed_exe_size.out)
        THEN {Thrown("Unable to read the compressed program.")}
               \cup ResizeThrows(compressed_exe_size.out)
      ELSE ReadTagArea(in, SizeAdd(SizeAdd(FromInt(16), reserved.len), compressed_exe.len),
                       psf_mandatory_size,
                       [ state |-> "ok",
                         version |-> version.out,
                         reserved |-> reserved,
                         compressed_exe |-> compressed_exe,
                         compressed_exe_crc32 |-> compressed_exe_crc32.out,
                         tags |-> NoTags ])

\* PSFFile psf(filename) on the file holding input
Construct ==
  /\ parsed = Idle
  /\ \E object \in PSFFile(input) : parsed' = object
  /\ UNCHANGED <<input, output, reparsed, loaderVars>>

\* the tag maps a caller gives to set_tags
TagMaps == {<<97>> :> <<98>>}

\* PSFFile::set_tags(tags) on the object built, before it is written
SetTags ==
  /\ parsed # Idle /\ parsed.state = "ok"
  /\ output = NotWritten
  /\ \E tags \in TagMaps :
       /\ tags # parsed.tags
       /\ parsed' = [parsed EXCEPT !.tags = tags]
  /\ UNCHANGED <<input, output, reparsed, loaderVars>>

\* std::getline(value_reader, line) until it fails, with value read from offset pos:
\* the lines delivered.  The end of the value ends the last line; nothing is
\* delivered once no character is left.
RECURSIVE getline_Split(_, _)
getline_Split(value, pos) ==
  LET newline == find(value, 10, pos)
  IN  IF newline = -1 THEN <<substr(value, pos, Len(value) - pos)>>
      ELSE <<substr(value, pos, newline - pos)>> \o getline_Split(value, newline + 1)

RECURSIVE getline(_, _)
getline(value, pos) ==
  IF ~(pos < Len(value)) THEN <<>>
  ELSE
    LET newline == find(value, 10, pos)
        end == IF newline = -1 THEN Len(value) ELSE newline
    IN  <<substr(value, pos, end - pos)>> \o getline(value, end + 1)

\* a writer that puts each line of the value after the key
RECURSIVE WriteTagLines_EachLine(_, _, _)
WriteTagLines_EachLine(key, value, lines) ==
  IF lines = <<>> THEN <<>>
  ELSE key \o <<61>> \o Head(lines) \o <<10>> \o WriteTagLines_EachLine(key, value, Tail(lines))

\* "write key-value pair for each lines": out << key << "=" << value << "\n", once
\* for each line that getline delivers
RECURSIVE WriteTagLines(_, _, _)
WriteTagLines(key, value, lines) ==
  IF lines = <<>> THEN <<>>
  ELSE key \o <<61>> \o value \o <<10>> \o WriteTagLines(key, value, Tail(lines))

\* for (const auto & pair : tags()), the map iterated in the given order
RECURSIVE WriteTags(_, _)
WriteTags(tags, order) ==
  IF order = <<>> THEN <<>>
  ELSE WriteTagLines(Head(order), tags[Head(order)], getline(tags[Head(order)], 0))
         \o WriteTags(tags, Tail(order))

\* the orders in which an unordered_map may iterate over its entries
Orders(tags) ==
  { order \in [1..Cardinality(DOMAIN tags) -> DOMAIN tags] :
      \A i, j \in DOMAIN order : order[i] = order[j] => i = j }

\* InsertInt8
InsertInt8(value) == <<value>>

\* PSFFile::write(filename): the bytes of the file written
write(object, order) ==
  Cat(StrOf(kPSFSignature \o InsertInt8(object.version)
              \o WriteInt32L(Trunc32(object.reserved.len))
              \o WriteInt32L(Trunc32(object.compressed_exe.len))
              \o WriteInt32L(object.compressed_exe_crc32)),
      Cat(object.reserved,
          Cat(object.compressed_exe,
              StrOf(IF DOMAIN object.tags # {}
                    THEN kPSFTagMarker \o WriteTags(object.tags, order)
                    ELSE <<>>))))

\* psf.write(filename) on the object built
Write ==
  /\ parsed # Idle /\ parsed.state = "ok"
  /\ output = NotWritten
  /\ \E order \in Orders(parsed.tags) : output' = write(parsed, order)
  /\ UNCHANGED <<input, parsed, reparsed, loaderVars>>

\* PSFFile psf(filename) on the file written
Reopen ==
  /\ output # NotWritten
  /\ reparsed = Idle
  /\ \E object \in PSFFile(output) : reparsed' = object
  /\ UNCHANGED <<input, parsed, output, loaderVars>>

\* the files: 16-byte headers over wrong and right signatures and over reserved and
\* program sizes that are small, beyond the file, or wrap 16 + N + M around 2^32
Signatures == {kPSFSignature, <<80, 83, 71>>, <<112, 115, 102>>}

Sizes32 ==
  { U32(0, 0), U32(0, 1), U32(0, 2), U32(0, 3), U32(1, 0), U32(32768, 0),
    U32(65535, 65519), U32(65535, 65520), U32(65535, 65535) }

Header(signature, version, reserved_size, compressed_exe_size, crc) ==
  signature \o <<version>> \o WriteInt32L(reserved_size)
    \o WriteInt32L(compressed_exe_size) \o WriteInt32L(crc)

Headers ==
  { Header(sg, v, n, m, c) :
      sg \in Signatures, v \in {k2SFVersionByte, 1}, n \in Sizes32, m \in Sizes32,
      c \in {U32(0, 7), U32(65535, 65534)} }

\* n bytes to follow a header: 101, 102, ...
TailBytes(n) == [i \in 1..n |-> 100 + i]

\* tag areas: a line, a repeated variable, whitespace, lines without =, no final
\* newline, an empty value, a repeated line, a second = in a line, bytes above 0x7F
\* and a zero byte
TagTexts ==
  { <<>>,
    <<97, 61, 98, 10>>,
    <<97, 61, 98, 10, 97, 61, 99, 10>>,
    <<32, 97, 32, 61, 9, 98, 32, 10>>,
    <<120, 10, 61, 10, 10, 97, 61, 98>>,
    <<95, 108, 105, 98, 61, 97, 10, 95, 108, 105, 98, 50, 61, 98, 10>>,
    <<97, 61, 10>>,
    <<97, 61, 49, 10, 98, 61, 10, 97, 61, 49, 10>>,
    <<97, 61, 10, 97, 61, 10>>,
    <<97, 61, 49, 10, 97, 61, 49, 10>>,
    <<97, 61, 98, 61, 99, 32, 100, 10, 98, 61, 50>>,
    <<200, 32, 61, 32, 200, 32, 201, 0, 32>> }

\* a marker, a wrong marker, a marker cut short
Markers == {kPSFTagMarker, <<91, 84, 65, 71, 95>>, <<91, 84, 65>>}

ParseInputs ==
  { SubSeq(h, 1, n) : h \in Headers, n \in 0..15 }
  \cup { h \o TailBytes(n) : h \in Headers, n \in 0..MaxTail }
  \cup { Header(kPSFSignature, k2SFVersionByte, FromInt(n), FromInt(m), U32(0, 7))
           \o TailBytes(n + m) \o mk \o text
         : n \in 0..1, m \in 0..1, mk \in Markers, text \in TagTexts }

\* reserved sizes of 2 GiB and more whose bytes the file holds: with them
\* 16 + N + M, or that and the 5 bytes of the marker, reaches 2^32
LargeSizes ==
  { U32(32768, 0), U32(65535, 65514), U32(65535, 65515), U32(65535, 65516),
    U32(65535, 65520) }

LargeFiles ==
  { Cat(StrOf(Header(kPSFSignature, k2SFVersionByte, n, FromInt(m), U32(0, 7))),
        Cat(Zeros(n), StrOf(TailBytes(m) \o after)))
    : n \in LargeSizes, m \in 0..1,
      after \in {<<>>, <<91, 84, 65>>, kPSFTagMarker, kPSFTagMarker \o <<97, 61, 98, 10>>} }

Files == {StrOf(bytes) : bytes \in ParseInputs} \cup LargeFiles

\* only the reader and the writer run: main and the loader stay as they are before
\* main starts
InitParse ==
  /\ input \in Files
  /\ parsed = Idle
  /\ output = NotWritten
  /\ reparsed = Idle
  /\ build = 2
  /\ fs = NoTags
  /\ arg = Here("-")
  /\ cwd = StartCwd
  /\ stack = <<>>
  /\ rom = EmptyRom
  /\ exc = NoExc
  /\ mainpc = "idle"
  /\ status = -1
  /\ outfile = NotWritten
  /\ log = <<>>
  /\ calls = 0

NextParse == Construct \/ SetTags \/ Write \/ Reopen

SpecParse == InitParse /\ [][NextParse]_vars

-----------------------------------------------------------------------------
(* The container reader's contract.                                        *)

\* the 16-bit halves of the 32-bit value stored at offset at of the input
StoredLow(at) == ByteAt(input, FromInt(at)) + 256 * ByteAt(input, FromInt(at + 1))

StoredHigh(at) == ByteAt(input, FromInt(at + 2)) + 256 * ByteAt(input, FromInt(at + 3))

Stored(at) == <<StoredHigh(at), StoredLow(at)>>

\* 16 + N + M in true integers
TrueMandatorySize == SizeAdd(SizeAdd(FromInt(16), Stored(4)), Stored(8))

\* the first 3 bytes are the signature and the 13 header bytes are present
HeaderPresent ==
  /\ ~Gt32(FromInt(16), input.len)
  /\ \A i \in 0..2 : ByteAt(input, FromInt(i)) = <<80, 83, 70>>[i + 1]

\* 16 + N + M <= L in true integers
MandatoryAreaPresent == ~Gt32(TrueMandatorySize, input.len)

\* str is the n bytes of file from offset pos on
IsRange(str, file, pos, n) ==
  /\ str.len = n
  /\ \A i \in DOMAIN str.data : ByteAt(file, SizeAdd(pos, i)) = str.data[i]
  /\ \A j \in DOMAIN file.data :
       (~Gt32(pos, j) /\ Gt32(SizeAdd(pos, n), j)) => ByteAt(str, SizeSub(j, pos)) = file.data[j]

\* C10: for every input of length L the constructor succeeds only if the first 3
\* bytes are the signature, the 13 header bytes are present and 16 + N + M <= L in
\* true integers (N, M any 32-bit values, sums of 2^32 or more included), and fails
\* otherwise; on success version is byte 3, the reserved area is bytes [16, 16+N),
\* the program is bytes [16+N, 16+N+M) and the CRC32 is the stored value.
C10_ContainerParse ==
  /\ parsed # Idle => parsed.state \in {"ok", "error"}
  /\ (parsed # Idle /\ parsed.state = "ok") =>
       /\ HeaderPresent
       /\ MandatoryAreaPresent
       /\ parsed.version = ByteAt(input, FromInt(3))
       /\ IsRange(parsed.reserved, input, FromInt(16), Stored(4))
       /\ IsRange(parsed.compressed_exe, input, SizeAdd(FromInt(16), Stored(4)), Stored(8))
       /\ parsed.compressed_exe_crc32 = Stored(12)
  /\ (parsed # Idle /\ ~(HeaderPresent /\ MandatoryAreaPresent)) => parsed.state = "error"

\* a file with a reserved area and a program and bytes to spare has been read
C10_Witness ==
  /\ parsed # Idle /\ parsed.state = "ok"
  /\ parsed.reserved.len = FromInt(1) /\ parsed.compressed_exe.len = FromInt(2)
  /\ Gt32(input.len, FromInt(19))

\* a file whose sizes wrap 16 + N + M to at most its length has been rejected
C10_WrapRejected ==
  /\ parsed # Idle /\ parsed.state = "error"
  /\ HeaderPresent
  /\ ~Gt32(Trunc32(TrueMandatorySize), input.len)

-----------------------------------------------------------------------------
(* The tag area.                                                           *)

\* the number of bytes after the payload: L - (16 + N + M)
TrailingSize == SizeSub(input.len, TrueMandatorySize)

\* at least 5 bytes follow the payload and they are "[TAG]"
HasTagMarker ==
  /\ ~Gt32(FromInt(5), TrailingSize)
  /\ \A i \in 0..4 :
       ByteAt(input, SizeAdd(TrueMandatorySize, FromInt(i))) = <<91, 84, 65, 71, 93>>[i + 1]

\* the L - (16 + N + M) - 5 bytes after the marker
TagBlock ==
  [ k \in 1..ToInt(SizeSub(TrailingSize, FromInt(5)))
    |-> ByteAt(input, SizeAdd(TrueMandatorySize, FromInt(4 + k))) ]

\* the constructor returns or throws in this step
Constructed == parsed = Idle /\ parsed' # Idle

\* the tag map the tag area of the input stands for
TagsOfInput == IF HasTagMarker THEN ParseTagLines(TagBlock, 0, NoTags) ELSE NoTags

\* C11: once the mandatory part is parsed (signature, header and the 16 + N + M
\* bytes are there), the constructor succeeds, and the tag map is built from the rest
\* of the file exactly when at least 5 bytes follow the payload and they are "[TAG]":
\* then the remaining L - (16 + N + M) - 5 bytes are parsed as the tag block;
\* otherwise the tag map is empty and the trailing bytes are ignored.
C11_TagAreaGating ==
  [][ (Constructed /\ HeaderPresent /\ MandatoryAreaPresent) =>
        (parsed'.state = "ok" /\ parsed'.tags = TagsOfInput) ]_vars

\* the same for files shorter than 2^32 bytes
C11_TagAreaGating_Fits32 ==
  [][ (Constructed /\ HeaderPresent /\ MandatoryAreaPresent /\ input.len[1] < Half) =>
        (parsed'.state = "ok" /\ parsed'.tags = TagsOfInput) ]_vars

\* a file of 2^32 bytes or more with a tag area has been rejected
C11_LargeRejected ==
  /\ parsed # Idle /\ parsed.state = "error"
  /\ parsed.what = "Unable to read the tag area."
  /\ HeaderPresent /\ MandatoryAreaPresent /\ HasTagMarker

\* tags have been read after a marker, and bytes after a wrong marker ignored
C11_TagsRead ==
  /\ parsed # Idle /\ parsed.state = "ok" /\ output = NotWritten
  /\ HasTagMarker /\ Cardinality(DOMAIN parsed.tags) = 2

C11_TrailingIgnored ==
  /\ parsed # Idle /\ parsed.state = "ok" /\ output = NotWritten
  /\ ~HasTagMarker /\ Gt32(TrailingSize, FromInt(5)) /\ parsed.tags = NoTags

-----------------------------------------------------------------------------
(* The text of a tag area, read line by line.                              *)

\* the offsets (1-based) at which the lines of a block start: the first byte and
\* every byte after a newline
LineStarts(block) ==
  {i \in 1..Len(block) : i = 1 \/ block[i - 1] = 10}

\* the line that starts at i: the bytes up to the next newline or the end of the block
LineAt(block, i) ==
  LET ends == {j \in i..Len(block) : block[j] = 10}
      last == IF ends = {} THEN Len(block)
              ELSE (CHOOSE j \in ends : \A e \in ends : j <= e) - 1
  IN  SubSeq(block, i, last)

\* the lines of a block in order
LinesOf(block) ==
  LET starts == LineStarts(block)
      nth(n) == CHOOSE i \in starts : Cardinality({j \in starts : j < i}) = n - 1
  IN  [n \in 1..Cardinality(starts) |-> LineAt(block, nth(n))]

HasSeparator(line) == \E i \in 1..Len(line) : line[i] = 61

\* the offset of the first = of a line that has one
FirstSeparator(line) ==
  CHOOSE i \in 1..Len(line) : line[i] = 61 /\ \A j \in 1..(i - 1) : line[j] # 61

\* text without its leading and trailing bytes <= 0x20
Trimmed(text) ==
  LET solid == {i \in 1..Len(text) : text[i] > 32}
  IN  IF solid = {} THEN <<>>
      ELSE SubSeq(text, CHOOSE i \in solid : \A j \in solid : i <= j,
                        CHOOSE i \in solid : \A j \in solid : i >= j)

KeyOfLine(line) == Trimmed(SubSeq(line, 1, FirstSeparator(line) - 1))

ValueOfLine(line) == Trimmed(SubSeq(line, FirstSeparator(line) + 1, Len(line)))

\* texts joined by single newlines
RECURSIVE JoinLines(_)
JoinLines(texts) ==
  IF texts = <<>> THEN <<>>
  ELSE IF Len(texts) = 1 THEN texts[1]
  ELSE texts[1] \o <<10>> \o JoinLines(Tail(texts))

\* the trimmed values of the lines of a block whose trimmed key is key, in order
ValuesOfKey(block, key) ==
  LET lines == LinesOf(block)
      at == {n \in 1..Len(lines) : HasSeparator(lines[n]) /\ KeyOfLine(lines[n]) = key}
      nth(n) == CHOOSE i \in at : Cardinality({j \in at : j < i}) = n - 1
  IN  [n \in 1..Cardinality(at) |-> ValueOfLine(lines[nth(n)])]

\* the constructor has just read a tag block
TagBlockRead ==
  /\ Constructed /\ parsed'.state = "ok"
  /\ HeaderPresent /\ MandatoryAreaPresent /\ HasTagMarker

\* C12: for every tag block and key k, the tag map has an entry for k exactly when
\* some line has trimmed key k, and its value is the trimmed values of all lines
\* with trimmed key k, in order of appearance, consecutive or not, joined by single
\* newlines: a repeated key never replaces the earlier value.
C12_MergeByKey ==
  [][ TagBlockRead =>
        LET lines == LinesOf(TagBlock)
            keys == {KeyOfLine(lines[n]) : n \in {n \in 1..Len(lines) : HasSeparator(lines[n])}}
        IN  /\ DOMAIN parsed'.tags = keys
            /\ \A k \in keys : parsed'.tags[k] = JoinLines(ValuesOfKey(TagBlock, k)) ]_vars

\* a block in which a key comes back after a line of another key has been read
C12_Witness ==
  /\ parsed # Idle /\ parsed.state = "ok" /\ output = NotWritten
  /\ HasTagMarker
  /\ TagBlock = <<97, 61, 49, 10, 98, 61, 10, 97, 61, 49, 10>>
  /\ parsed.tags = (<<97>> :> <<49, 10, 49>>) @@ (<<98>> :> <<>>)

\* the lines of a block that have an =
Contributing(block) ==
  LET lines == LinesOf(block)
  IN  {n \in 1..Len(lines) : HasSeparator(lines[n])}

\* the number of values joined in the entries of a tag map
Segments(tags) ==
  LET count(value) == 1 + Cardinality({i \in 1..Len(value) : value[i] = 10})
      RECURSIVE sum(_)
      sum(keys) == IF keys = {} THEN 0
                   ELSE LET k == CHOOSE k \in keys : TRUE
                        IN  count(tags[k]) + sum(keys \ {k})
  IN  sum(DOMAIN tags)

\* C13: the block is split on the newline byte and a final line without a newline
\* is processed like any other; a line contributes exactly when it contains an =,
\* other lines are skipped without failing; the key is the text before the first =
\* and the value all the text after it, each without its leading and trailing bytes
\* <= 0x20 (such bytes inside, and later = signs, are kept).
C13_LineRule ==
  [][ TagBlockRead =>
        LET lines == LinesOf(TagBlock)
        IN  /\ \A n \in 1..Len(lines) :
                 ParseTagLines(lines[n], 0, NoTags) =
                   IF HasSeparator(lines[n])
                   THEN KeyOfLine(lines[n]) :> ValueOfLine(lines[n])
                   ELSE NoTags
            /\ \A n \in Contributing(TagBlock) :
                 /\ KeyOfLine(lines[n]) \in DOMAIN parsed'.tags
                 /\ LET pieces == LinesOf(parsed'.tags[KeyOfLine(lines[n])] \o <<10>>)
                    IN  \E i \in 1..Len(pieces) : pieces[i] = ValueOfLine(lines[n])
            /\ Segments(parsed'.tags) = Cardinality(Contributing(TagBlock)) ]_vars

\* a block with a line without =, an empty line, a line that is only = and a final
\* line without a newline has been read
C13_Witness ==
  /\ parsed # Idle /\ parsed.state = "ok" /\ output = NotWritten
  /\ HasTagMarker
  /\ TagBlock = <<120, 10, 61, 10, 10, 97, 61, 98>>
  /\ parsed.tags = (<<>> :> <<>>) @@ (<<97>> :> <<98>>)

\* keys and values have been trimmed of bytes <= 0x20, zero included, at both ends,
\* with bytes above 0x7F and an inner blank kept
C13_Trimmed ==
  /\ parsed # Idle /\ parsed.state = "ok" /\ output = NotWritten
  /\ HasTagMarker
  /\ parsed.tags = (<<200>> :> <<200, 32, 201>>)

-----------------------------------------------------------------------------
(* Writing a container and reading it back.                                *)

\* the file written has been read back
ReadBack == output # NotWritten /\ reparsed # Idle

\* the four structural fields of two objects agree
SameStructure(a, b) ==
  /\ a.version = b.version
  /\ a.reserved = b.reserved
  /\ a.compressed_exe = b.compressed_exe
  /\ a.compressed_exe_crc32 = b.compressed_exe_crc32

\* the lengths of the reserved area and the payload fit in 32 bits
LengthsFit32(object) == object.reserved.len[1] < Half /\ object.compressed_exe.len[1] < Half

\* C14: for every container, with or without tags, whose reserved and payload
\* lengths fit in 32 bits, reading back the file written succeeds and gives the same
\* version, reserved bytes, payload bytes and stored CRC32, whether or not the CRC32
\* matches the payload.
C14_StructuralRoundTrip ==
  (ReadBack /\ LengthsFit32(parsed)) =>
    (reparsed.state = "ok" /\ SameStructure(reparsed, parsed))

\* the same for files written that are shorter than 2^32 bytes
C14_StructuralRoundTrip_Fits32 ==
  (ReadBack /\ LengthsFit32(parsed) /\ output.len[1] < Half) =>
    (reparsed.state = "ok" /\ SameStructure(reparsed, parsed))

\* a container with a reserved area, a payload and tags has been written and read back
C14_SmallReadBack ==
  /\ ReadBack /\ reparsed.state = "ok" /\ SameStructure(reparsed, parsed)
  /\ parsed.reserved.len = FromInt(1) /\ parsed.compressed_exe.len = FromInt(1)
  /\ DOMAIN parsed.tags # {}

\* a container of 2^32 bytes or more without tags has been written and read back
C14_LargeReadBack ==
  /\ ReadBack /\ reparsed.state = "ok" /\ SameStructure(reparsed, parsed)
  /\ output.len[1] >= Half

\* the object written is the one the constructor built from the input
ObtainedByParsing ==
  /\ parsed # Idle /\ parsed.state = "ok"
  /\ HeaderPresent /\ MandatoryAreaPresent
  /\ parsed.tags = TagsOfInput

NewlineFree(tags) == \A k \in DOMAIN tags : \A i \in 1..Len(tags[k]) : tags[k][i] # 10

NoEmptyValue(tags) == \A k \in DOMAIN tags : tags[k] # <<>>

\* C15 as stated: for every container obtained by parsing, the tag map read back
\* equals the container's tag map exactly when no tag value contains a newline
\* (reproduced for all newline-free values, empty ones included; not reproduced when
\* some value contains a newline).
C15_TagRoundTrip_Stated ==
  (ReadBack /\ ObtainedByParsing) =>
    /\ reparsed.state = "ok"
    /\ (reparsed.tags = parsed.tags) <=> NewlineFree(parsed.tags)

\* C15, amended: for every container obtained by parsing whose tag values are all
\* newline-free, the tag map read back equals the container's tag map exactly when
\* no value is empty; the entries read back are those with a non-empty value.
C15_TagRoundTrip ==
  (ReadBack /\ ObtainedByParsing /\ NewlineFree(parsed.tags)) =>
    /\ reparsed.state = "ok"
    /\ (reparsed.tags = parsed.tags) <=> NoEmptyValue(parsed.tags)
    /\ DOMAIN reparsed.tags = {k \in DOMAIN parsed.tags : parsed.tags[k] # <<>>}
    /\ \A k \in DOMAIN reparsed.tags : reparsed.tags[k] = parsed.tags[k]

\* two newline-free, non-empty entries have been written and read back
C15_Witness ==
  /\ ReadBack /\ ObtainedByParsing
  /\ Cardinality(DOMAIN parsed.tags) = 2
  /\ NewlineFree(parsed.tags) /\ NoEmptyValue(parsed.tags)
  /\ reparsed.state = "ok" /\ reparsed.tags = parsed.tags

\* an entry with an empty value has been lost
C15_EmptyLost ==
  /\ ReadBack /\ ObtainedByParsing
  /\ parsed.tags = (<<97>> :> <<>>)
  /\ reparsed.state = "ok" /\ reparsed.tags = NoTags

\* a value with a newline has been reproduced, another has not
C15_NewlineReproduced ==
  /\ ReadBack /\ ObtainedByParsing
  /\ ~NewlineFree(parsed.tags) /\ NoEmptyValue(parsed.tags)
  /\ reparsed.state = "ok" /\ reparsed.tags = parsed.tags

C15_NewlineNotReproduced ==
  /\ ReadBack /\ ObtainedByParsing
  /\ ~NewlineFree(parsed.tags)
  /\ reparsed.state = "ok" /\ reparsed.tags # parsed.tags

-----------------------------------------------------------------------------
(* The layout of the file written.                                         *)

\* the 32-bit value stored least significant byte first at offset at of the file
StoredIn(file, at) ==
  << ByteAt(file, FromInt(at + 2)) + 256 * ByteAt(file, FromInt(at + 3)),
     ByteAt(file, FromInt(at)) + 256 * ByteAt(file, FromInt(at + 1)) >>

\* n copies of text
RECURSIVE Copies(_, _)
Copies(text, n) == IF n = 0 THEN <<>> ELSE text \o Copies(text, n - 1)

Newlines(value) == Cardinality({i \in 1..Len(value) : value[i] = 10})

\* the number of pieces a value splits into on newline
PiecesOf(value) == Newlines(value) + 1

\* the number of lines in a value: its newline-terminated pieces, and what follows
\* the last newline if that is not empty
LinesIn(value) ==
  Newlines(value) + (IF value # <<>> /\ value[Len(value)] # 10 THEN 1 ELSE 0)

\* for each entry, in the given order, the given number of copies of key=value\n
RECURSIVE TagTextOf(_, _, _)
TagTextOf(tags, order, counts) ==
  IF order = <<>> THEN <<>>
  ELSE Copies(Head(order) \o <<61>> \o tags[Head(order)] \o <<10>>, counts[Head(order)])
         \o TagTextOf(tags, Tail(order), counts)

\* file is signature, version, the two lengths, the CRC32, the reserved bytes, the
\* payload bytes and then text
LaidOut(file, object, text) ==
  LET N == object.reserved.len
      M == object.compressed_exe.len
      end == SizeAdd(SizeAdd(FromInt(16), N), M)
  IN  /\ file.len = SizeAdd(end, FromInt(Len(text)))
      /\ \A i \in 0..2 : ByteAt(file, FromInt(i)) = <<80, 83, 70>>[i + 1]
      /\ ByteAt(file, FromInt(3)) = object.version
      /\ StoredIn(file, 4) = N
      /\ StoredIn(file, 8) = M
      /\ StoredIn(file, 12) = object.compressed_exe_crc32
      /\ IsRange(object.reserved, file, FromInt(16), N)
      /\ IsRange(object.compressed_exe, file, SizeAdd(FromInt(16), N), M)
      /\ \A i \in 1..Len(text) : ByteAt(file, SizeAdd(end, FromInt(i - 1))) = text[i]

\* the file written is laid out with the marker and the tag text exactly when the tag
\* map is not empty, the entries in some order, each written counts[key] times
WrittenWith(counts) ==
  IF DOMAIN parsed.tags = {} THEN LaidOut(output, parsed, <<>>)
  ELSE \E order \in Orders(parsed.tags) :
         LaidOut(output, parsed,
                 <<91, 84, 65, 71, 93>> \o TagTextOf(parsed.tags, order, counts))

\* C16 as stated: the file written is signature, version, reserved length, payload
\* length, stored CRC32, reserved bytes, payload bytes, then the marker and the tag
\* text exactly when the tag map is not empty; the tag text holds, for each entry
\* whose value splits on newline into n pieces, n copies of key=value and a newline,
\* and nothing else.
C16_Layout_Stated ==
  (output # NotWritten /\ LengthsFit32(parsed)) =>
    WrittenWith([k \in DOMAIN parsed.tags |-> PiecesOf(parsed.tags[k])])

\* C16, amended: the same with n the number of lines in the value, where a newline
\* ends a line and starts none: an empty value has no line and is written as nothing,
\* a value that ends with a newline has as many lines as newlines.
C16_Layout ==
  (output # NotWritten /\ LengthsFit32(parsed)) =>
    WrittenWith([k \in DOMAIN parsed.tags |-> LinesIn(parsed.tags[k])])

\* a container with a two-line value and an empty value has been written
C16_Witness ==
  /\ output # NotWritten
  /\ parsed.tags = (<<97>> :> <<49, 10, 49>>) @@ (<<98>> :> <<>>)
  /\ parsed.reserved.len = FromInt(1) /\ parsed.compressed_exe.len = FromInt(1)

\* a container without tags has been written without a marker
C16_NoMarker ==
  /\ output # NotWritten /\ parsed.tags = NoTags
  /\ output.len = FromInt(18)

-----------------------------------------------------------------------------
(* The copy step of load_2sf.                                              *)

\* the invocation on top has passed the size and bounds checks and copies next
AtCopy == Running /\ top.pc = "copy"

\* the decompressed data has fewer than 8 + load_size bytes, in true integers
DataShort(f) == TrueSumGt(FromInt(8), f.load_size, Len(f.exe))

\* r2 is r with the load_size bytes from offset 8 of the decompressed data at
\* [load_offset, load_offset + load_size), and nothing else changed
Overlaid(r, r2, f) ==
  /\ ~TrueSumGt(f.load_offset, f.load_size, r.len)
  /\ r2.len = r.len
  /\ LET off == ToInt(f.load_offset)
         size == ToInt(f.load_size)
     IN  \A p \in DOMAIN r.data \cup DOMAIN r2.data \cup {off + i : i \in 0..(size - 1)} :
           RomAt(r2, p) = IF off <= p /\ p < off + size THEN f.exe[9 + p - off]
                          ELSE RomAt(r, p)

\* C17: for a payload that passed the size and bounds checks, if the decompressed
\* data has fewer than 8 + load_size bytes the load fails with CorruptDataError and
\* no byte of the payload is copied into the buffer; otherwise exactly the load_size
\* bytes from offset 8 of the decompressed data are copied to
\* [load_offset, load_offset + load_size), and every other byte of the buffer and its
\* length are left unchanged.
C17_CopyStep ==
  [][ AtCopy =>
        IF DataShort(top)
        THEN exc' = "CorruptDataError" /\ rom' = rom
        ELSE exc' = NoExc /\ mainpc' = mainpc /\ Overlaid(rom, rom', top) ]_vars

\* the same for the first generation of load_2sf (whole-block decompression) and
\* payloads whose sums 8 + load_size and load_offset + load_size stay below 2^32
C17_CopyStep_WholeBlockFits32 ==
  [][ ( /\ AtCopy /\ build = 1
        /\ ~Carry32(FromInt(8), top.load_size)
        /\ ~Carry32(top.load_offset, top.load_size) ) =>
        IF DataShort(top)
        THEN exc' = "CorruptDataError" /\ rom' = rom
        ELSE exc' = NoExc /\ mainpc' = mainpc /\ Overlaid(rom, rom', top) ]_vars

\* the streaming generation has copied bytes of a payload and then failed
C17_PartialCopy ==
  /\ build = 2 /\ exc = "CorruptDataError"
  /\ \E i \in 1..Len(log) : log[i].ev = "copy" /\ log[i].bytes # <<>>
                            /\ i < Len(log) /\ log[i + 1].ev = "raise"
                            /\ log[i + 1].id = log[i].id

\* the invocation on top moves bytes in its next step: the first generation after
\* its check of the data's length, the second by reading from the stream
WillCopy(f) == build = 2 \/ ~ProgramTooShort(f)

\* the number of bytes that step moves
Accessed(f) == IF build = 1 THEN f.load_size ELSE FromInt(Moved(f))

\* C18: in every reachable state in which load_2sf copies a payload, the destination
\* range lies inside the buffer and the source range inside the decompressed data,
\* as true integers, for all 32-bit load_offset and load_size: no files make the
\* loader write outside the buffer or read past the decompressed payload.
C18_BoundsSafety ==
  /\ ~UndefinedBehaviour
  /\ (AtCopy /\ WillCopy(top) /\ Accessed(top) # FromInt(0)) =>
       /\ ~TrueSumGt(top.load_offset, Accessed(top), rom.len)
       /\ ~TrueSumGt(FromInt(8), Accessed(top), Len(top.exe))

\* C18 restricted to the runs whose header sums all fit in 32 bits
C18_BoundsSafety_Fits32 == SumsFit32 => C18_BoundsSafety

\* a payload has been copied into a buffer sized by an earlier payload
C18_CopiedInside ==
  /\ ~UndefinedBehaviour
  /\ Cardinality(EventsOf("copy")) >= 2
  /\ \E j \in EventsOf("copy") : log[j].bytes # <<>>

-----------------------------------------------------------------------------
(* Termination.                                                            *)

\* main runs on: a step is taken whenever one can be taken
FairSpec == Spec /\ WF_vars(Next)

\* the file a reference made in the file at path denotes: in the second generation
\* the reference is read in the directory of the referencing file, in the first in
\* the directory main was started in
Target(path, ref) == path_getabspath(IF build = 2 THEN path.dir ELSE StartCwd, ref)

\* the files that the file at path names as _lib, _lib2, ... without a gap
LibsOf(path) ==
  IF path \notin DOMAIN fs \/ IsMalformed(fs[path]) THEN {}
  ELSE LET tags == fs[path].tags
       IN  { Target(path, tags[LibKey(i)]) :
               i \in {i \in 1..Cardinality(DOMAIN tags) :
                        \A j \in 1..i : LibKey(j) \in DOMAIN tags} }

\* the files reached from the given files by library references
RECURSIVE ReachedFrom(_)
ReachedFrom(paths) ==
  LET more == paths \cup UNION {LibsOf(p) : p \in paths}
  IN  IF more = paths THEN paths ELSE ReachedFrom(more)

\* the library references of the files reached from the root form a cycle
Cyclic ==
  \E p \in ReachedFrom({path_getabspath(StartCwd, arg)}) :
    p \in DOMAIN fs /\ p \in ReachedFrom(LibsOf(p))

\* main has ended: it returned, or the process was killed in an out-of-range copy
Ended == mainpc \in {"done", "killed"}

\* C19: for every finite set of files the load eventually completes; when the
\* library references form a cycle it never succeeds but ends in failure: by
\* DepthExceededError, raised at nest level 10, unless another error occurs before
\* any invocation reaches level 10.
C19_Termination ==
  /\ <>Ended
  /\ [](Cyclic => ~Succeeded)
  /\ []((Cyclic /\ mainpc = "done") =>
          /\ Failed /\ exc # NoExc
          /\ exc = "DepthExceededError" =>
               \E j \in EventsOf("raise") :
                 IsRaise(j, "DepthExceededError") /\ EnterOf(log[j].id).depth = 10
          /\ exc # "DepthExceededError" =>
               \A id \in Invocations : EnterOf(id).depth < 10)

\* a cycle through two files has ended in DepthExceededError
C19_Witness ==
  /\ Cyclic /\ Failed /\ exc = "DepthExceededError"
  /\ Cardinality({PathOf(id) : id \in Opened}) = 2
  /\ Cardinality(Opened) = 10

\* a load over a cycle has ended in another error before level 10 was reached
C19_EarlierError ==
  /\ Cyclic /\ Failed /\ exc = "IntegrityError"

====
